---- MODULE Spec2Model ----
(***************************************************************************)
(* A model of pg-boss's Manager (src/manager.js): publish with singleton   *)
(* throttling, fetch / complete / cancel, the subscription workers and the *)
(* expiration monitor.                                                     *)
(*                                                                         *)
(* The Manager talks to a relational store through prepared plans          *)
(* (plans.js), runs Worker loops (worker.js) and normalises intervals with *)
(* Attorney (attorney.js).  Those three files are not part of the sources  *)
(* at hand: the plans and the worker loop are modelled from the            *)
(* specification's description of them (the *Plan operators and the        *)
(* Worker* actions below), everything else from manager.js.                *)
(*                                                                         *)
(* Time is a discrete clock in seconds.  The `error' event is assumed to   *)
(* have a listener (the facade that owns the Manager attaches one), so     *)
(* emitting it records the event and returns.                              *)
(***************************************************************************)
EXTENDS Integers, Sequences, FiniteSets, TLC

\* ------------------------------------------------------------------ bounds
\* The clock runs from 0 to MaxTime.
MaxTime == 2
\* The job table holds at most MaxJobs rows, with the ids 1..MaxJobs.
MaxJobs == 2
\* complete is invoked at most MaxCompletes times.
MaxCompletes == 2
\* The callers that race for jobs with fetch.
MaxCallers == 2
\* The workers subscribe calls create.
MaxWorkers == 2
\* The jobs workers hand to their responder.
MaxDispatches == 2
\* The seconds that pass while callers, workers and the monitor run.
MaxWait == 1
\* The publish calls in flight at a time, and the complete and cancel calls.
MaxInFlight == 2
\* The times the caller assigns the options object it keeps for publish
\* while a call that holds it is in flight.
MaxSets == 1
\* The monitor() calls, the stop() calls and the sweeps of a timer that fail.
MaxMonitors == 2
MaxStops == 2
MaxFailures == 2

\* `expireIn || "15 minutes"': the default visibility window, in seconds.
DefaultExpireSeconds == 900

JobIds == 1..MaxJobs
Times == 0..MaxTime
\* "No value" for a time held in a row (ids start at 1, so 0 is "no id").
NoTime == 0 - 1

\* ------------------------------------------------------------- JS values
\* A JavaScript value as far as the Manager looks at it: its kind, its text
\* when it is a string, and its properties when it is an object.
NoFields ==
    [startIn |-> [t |-> "undefined", n |-> 0, s |-> ""],
     expireIn |-> "",
     retryLimit |-> 0,
     singletonKey |-> "",
     singletonSeconds |-> 0,
     singletonMinutes |-> 0,
     singletonHours |-> 0,
     singletonDays |-> 0,
     singletonNextSlot |-> FALSE]

JsUndefined == [t |-> "undefined", s |-> "", f |-> <<>>]
JsNull == [t |-> "null", s |-> "", f |-> <<>>]
JsFunction == [t |-> "function", s |-> "", f |-> <<>>]
JsString(x) == [t |-> "string", s |-> x, f |-> <<>>]
JsObject(fields) == [t |-> "object", s |-> "", f |-> fields]
\* The single argument of the object form: { name, data, options }.
JsJob(n, d, o) == [t |-> "job", s |-> "", name |-> n, data |-> d, options |-> o]

\* typeof v
TypeOf(v) == IF v.t \in {"null", "job"} THEN "object" ELSE v.t

\* Whether v is truthy.
Truthy(v) ==
    CASE v.t = "undefined" -> FALSE
      [] v.t = "null" -> FALSE
      [] v.t = "string" -> v.s # ""
      [] OTHER -> TRUE

\* A property of an options object that is a number or a short string.
NumberVal(k) == [t |-> "number", n |-> k, s |-> ""]
StringVal(x) == [t |-> "string", n |-> 0, s |-> x]
UndefinedVal == [t |-> "undefined", n |-> 0, s |-> ""]
NullVal == [t |-> "null", n |-> 0, s |-> ""]

\* ------------------------------------------------- interval text (store)
\* CAST(text AS interval) of the store, in seconds: a bare number is a number
\* of seconds.
CastInterval(text) ==
    CASE text = "1 second" -> 1
      [] text = "2 seconds" -> 2
      [] text = "15 minutes" -> DefaultExpireSeconds
      [] OTHER -> CHOOSE k \in 0..(2 * MaxTime + 2) : ToString(k) = text

\* ------------------------------------------------------ publish: getArgs
\* args[i] of the source is Arg(args, i + 1): undefined past the end.
Arg(args, i) == IF i <= Len(args) THEN args[i] ELSE JsUndefined

Rejected(msg) ==
    [ok |-> FALSE, error |-> msg, name |-> "", data |-> "undefined",
     options |-> NoFields, aliased |-> FALSE]

\* The tail of getArgs, common to both forms: options = options || {}, then
\* the assertions on name and options.
PublishCheck(name, data, options) ==
    LET opts == IF Truthy(options) THEN options ELSE JsObject(NoFields)
    IN  IF ~Truthy(name)
          THEN Rejected("boss requires all jobs to have a name")
        ELSE IF TypeOf(opts) # "object"
          THEN Rejected("options should be an object")
        ELSE [ok |-> TRUE, error |-> "", name |-> name.s, data |-> data.t,
              options |-> opts.f, aliased |-> Truthy(options)]

\* publish's getArgs(args): the positional form (name, data, options), the
\* object form ({name, data, options}), or neither.
PublishGetArgs(args) ==
    LET a0 == Arg(args, 1)
    IN  IF TypeOf(a0) = "string"
          THEN IF TypeOf(Arg(args, 2)) = "function"
                 THEN Rejected("publish() cannot accept a function as the payload")
                 ELSE PublishCheck(a0, Arg(args, 2), Arg(args, 3))
        ELSE IF TypeOf(a0) = "object"
          THEN IF Len(args) # 1
                 THEN Rejected("publish object API only accepts 1 argument")
               ELSE IF a0.t # "job"
                 THEN Rejected("boss requires all jobs to have a name")
               ELSE PublishCheck(a0.name, a0.data, a0.options)
        ELSE PublishCheck(JsUndefined, JsUndefined, JsUndefined)

\* ---------------------------------------------------- publish: insertJob
\* let startIn = (options.startIn > 0) ? '' + options.startIn
\*             : (typeof options.startIn == 'string') ? options.startIn : '0'
StartIn(options) ==
    LET v == options.startIn
    IN  IF v.t = "number" /\ v.n > 0 THEN ToString(v.n)
        ELSE IF v.t = "string" THEN v.s
        ELSE "0"

\* The throttling window in seconds; 0 stands for null.
SingletonSeconds(options) ==
    IF options.singletonSeconds > 0 THEN options.singletonSeconds
    ELSE IF options.singletonMinutes > 0 THEN options.singletonMinutes * 60
    ELSE IF options.singletonHours > 0 THEN options.singletonHours * 60 * 60
    ELSE IF options.singletonDays > 0 THEN options.singletonDays * 60 * 60 * 24
    ELSE 0

\* The values handed to the insert plan; singletonKey "" stands for null.
InsertValues(id, name, data, options, singletonOffset) ==
    [id |-> id,
     name |-> name,
     retryLimit |-> options.retryLimit,
     startIn |-> StartIn(options),
     expireIn |-> IF options.expireIn # "" THEN options.expireIn ELSE "15 minutes",
     data |-> data,
     singletonKey |-> options.singletonKey,
     singletonSeconds |-> SingletonSeconds(options),
     singletonOffset |-> singletonOffset]

\* The retry without `options.singletonNextSlot = false'.
RetryOptionsAgain(options, singletonSeconds) ==
    [options EXCEPT
       !.startIn = IF singletonSeconds > 0 THEN NumberVal(singletonSeconds)
                   ELSE NullVal]

\* The options object as the retry leaves it: startIn := singletonSeconds
\* (the value insertJob computed before it sent the insert, null for none),
\* singletonNextSlot := false.
RetryOptions(options, singletonSeconds) ==
    [options EXCEPT
       !.startIn = IF singletonSeconds > 0 THEN NumberVal(singletonSeconds)
                   ELSE NullVal,
       !.singletonNextSlot = FALSE]

\* A continuation that returns null for an insert that inserted a row.
InsertOutcomeNoId(rowCount, options) ==
    IF ~options.singletonNextSlot \/ rowCount = 1 THEN "null" ELSE "retry"

\* insertJob's continuation without the test of the row count.
InsertOutcomeUnchecked(rowCount, options) ==
    IF rowCount = 1 \/ ~options.singletonNextSlot THEN "id" ELSE "retry"

\* What the continuation of an insert does with the store's row count:
\* return the id, return null, or insert once more for the next slot.
InsertOutcome(rowCount, options) ==
    IF rowCount = 1 THEN "id"
    ELSE IF ~options.singletonNextSlot THEN "null"
    ELSE "retry"

\* ------------------------------------------------------------- the store
NoRow ==
    [state |-> "none", name |-> "", data |-> "undefined", startAfter |-> NoTime,
     expireIn |-> 0, startedAt |-> NoTime, createdAt |-> NoTime,
     singletonKey |-> "", singletonOn |-> NoTime]

Terminal == {"completed", "cancelled"}

\* The bucket boundary a row is inserted under: singletonSeconds times
\* floor((now + singletonOffset) / singletonSeconds), or none.
SingletonOn(t, v) ==
    IF v.singletonSeconds > 0
      THEN v.singletonSeconds * ((t + v.singletonOffset) \div v.singletonSeconds)
      ELSE NoTime

\* The rows an insert of values v at time t would collide with: a row of the
\* same (name, singletonKey, bucket) when throttled, a non-terminal row of
\* the same (name, singletonKey) when keyed without a window.
Conflicts(rs, t, v) ==
    {i \in JobIds :
       /\ rs[i].state # "none"
       /\ rs[i].name = v.name
       /\ rs[i].singletonKey = v.singletonKey
       /\ rs[i].singletonOn = SingletonOn(t, v)
       /\ \/ v.singletonSeconds > 0
          \/ v.singletonKey # "" /\ rs[i].state \notin Terminal}

\* insertJob plan: 0 or 1 row.
InsertRowCount(rs, t, v) == IF Conflicts(rs, t, v) = {} THEN 1 ELSE 0

InsertPlan(rs, t, v) ==
    IF InsertRowCount(rs, t, v) = 0 THEN rs
    ELSE [rs EXCEPT ![v.id] =
            [state |-> "created", name |-> v.name, data |-> v.data,
             startAfter |-> t + CastInterval(v.startIn),
             expireIn |-> CastInterval(v.expireIn),
             startedAt |-> NoTime, createdAt |-> t,
             singletonKey |-> v.singletonKey,
             singletonOn |-> SingletonOn(t, v)]]

\* An eligibility that forgets the state of the row.
EligibleWhatever(rs, t, name) ==
    {i \in JobIds : rs[i].state # "none" /\ rs[i].name = name /\ rs[i].startAfter <= t}

\* fetchNextJob plan: the rows eligible for name at time t; the plan claims
\* one of them, marking it active.
Eligible(rs, t, name) ==
    {i \in JobIds :
       /\ rs[i].state \in {"created", "retry", "expired"}
       /\ rs[i].name = name
       /\ rs[i].startAfter <= t}

ClaimRows(rs, t, claimed) ==
    [i \in JobIds |-> IF i \in claimed
                        THEN [rs[i] EXCEPT !.state = "active", !.startedAt = t]
                        ELSE rs[i]]

\* completeJob / cancelJob plans: 0 or 1 row.
FinishRowCount(rs, i) == IF rs[i].state = "active" THEN 1 ELSE 0

\* A completion that does not look at the state of the row.
CompletePlanAny(rs, i) == [rs EXCEPT ![i].state = "completed"]

CompletePlan(rs, i) ==
    IF FinishRowCount(rs, i) = 1 THEN [rs EXCEPT ![i].state = "completed"] ELSE rs

CancelPlan(rs, i) ==
    IF FinishRowCount(rs, i) = 1 THEN [rs EXCEPT ![i].state = "cancelled"] ELSE rs

\* expireJob plan: the active rows whose visibility window has elapsed.
Overdue(rs, t) ==
    {i \in JobIds : rs[i].state = "active" /\ t >= rs[i].startedAt + rs[i].expireIn}

ExpirePlan(rs, t) ==
    [i \in JobIds |-> IF i \in Overdue(rs, t) THEN [rs[i] EXCEPT !.state = "expired"]
                       ELSE rs[i]]

\* ------------------------------------------------------------- the state
VARIABLES
    rows,          \* the store's job table: id -> row
    now,           \* the store's clock, in seconds
    pubs,          \* the publish calls in flight, in order of call
    kept,          \* the options object the caller keeps and passes to
                   \* publish more than once: its properties, the
                   \* properties the caller gave it, and the times the
                   \* caller has assigned it while a call held it
    lastCall,      \* the arguments of the last publish call, and whether
                   \* getArgs accepted them
    lastPublish,   \* how the last publish call ended
    lastFetch,     \* what the last fetch(name) returned
    completeLog,   \* the complete(id) calls that have returned, in order of
                   \* return: the id, the number of the call in order of
                   \* call, and the result
    lastCancel,    \* what the last cancel(id) returned, and the state it
                   \* found the row in
    lastSweep      \* the last expiration sweep: whether it failed, the rows
                   \* it expired, the count its `expired' event carried

storeVars == <<rows, now, pubs, kept, lastCall, lastPublish, lastFetch, completeLog,
               lastCancel, lastSweep>>

VARIABLES
    calls,         \* the fetch calls of the callers
    finishes,      \* the complete and cancel calls in flight, in order of
                   \* call
    workers,       \* the workers created so far, in order of creation
    subs,          \* the subscribe calls whose registration has not run yet
    team,          \* the options object the caller keeps and passes to
                   \* subscribe: whether it exists, and its teamSize
    immediates,    \* the callbacks handed to setImmediate, in order
    dispatches,    \* the number of `job' events emitted so far, one for
                   \* each job handed to a responder
    requests,      \* the workers the accepted subscribe calls asked for, in
                   \* all, whether one of the calls came after a stop(), and
                   \* whether the caller assigned the options of a call that
                   \* waited for its registration
    callbacks,     \* the number of runs of a user callback so far
    processing,    \* the jobs user callbacks hold and have not completed
    thunks,        \* the dispatches whose callback has been handed its thunk
    errors,        \* the `error' events emitted
    thrown         \* the user callbacks that threw, and the last of them

workerVars == <<workers, subs, team, requests, immediates, dispatches, callbacks, processing,
                thunks, errors, thrown>>

VARIABLES
    monitors,      \* the monitor() calls so far and where each one's chain is
    expireTimer,   \* this.expireTimer: the chain whose timer it holds, 0 for none
    stopped,       \* this.stopped
    stops          \* the stop() calls whose continuation has not run yet

monitorVars == <<monitors, expireTimer, stopped, stops>>
procVars == <<calls, finishes, workerVars, monitorVars>>

\* ------------------------------------------------------------ the inputs
Names == {"a", "b"}
NameVals == {JsString("a"), JsString(""), JsUndefined}
DataVals == {JsString("payload"), JsFunction}
Forms == {"positional", "object"}

Keyed(seconds, nextSlot) ==
    [NoFields EXCEPT !.singletonKey = "k", !.singletonSeconds = seconds,
                     !.singletonNextSlot = nextSlot]

OptionObjects ==
    {NoFields,
     [NoFields EXCEPT !.expireIn = "1 second"],
     [NoFields EXCEPT !.startIn = NumberVal(1)],
     [NoFields EXCEPT !.singletonKey = "k"],
     Keyed(2, FALSE),
     Keyed(2, TRUE)}

OptionVals == {JsUndefined, JsString("x")} \cup {JsObject(o) : o \in OptionObjects}

PublishArgs(form, n, d, o) ==
    IF form = "positional" THEN <<n, d, o>> ELSE <<JsJob(n, d, o)>>

\* ------------------------------------------------------------------ Init
\* The values of an insert that has not been computed yet.
NoValues == InsertValues(0, "", "undefined", NoFields, 0)

NoPublish ==
    [kind |-> "none", id |-> 0, form |-> "", round |-> 0, nextSlot |-> FALSE,
     occupied |-> FALSE, inserted |-> 0, seconds |-> 0, aliased |-> FALSE,
     shared |-> FALSE, rewritten |-> FALSE, options |-> NoFields,
     given |-> NoFields, inserts |-> <<>>]

NoKept == [live |-> FALSE, f |-> NoFields, given |-> NoFields, sets |-> 0]

StoreInit ==
    /\ rows = [i \in JobIds |-> NoRow]
    /\ now = 0
    /\ pubs = <<>>
    /\ kept = NoKept
    /\ lastCall = [form |-> "", name |-> JsUndefined, data |-> JsUndefined,
                   options |-> JsUndefined, accepted |-> FALSE]
    /\ lastPublish = NoPublish
    /\ lastFetch = [name |-> "", id |-> 0]
    /\ completeLog = <<>>
    /\ lastCancel = [id |-> 0, ok |-> FALSE, was |-> "none"]
    /\ lastSweep = [failed |-> FALSE, rowCount |-> 0, emitted |-> 0]

\* --------------------------------------------------------------- publish
\* uuid[config.uuid](): an id no row of the table has.  insertJob draws it
\* before it sends the insert; nobody sees it before the insert has inserted
\* its row, so it is given its name, the smallest free one, when the store
\* inserts the row.  An insert that inserts nothing carries the id 0.
HasFreeId(rs) == \E i \in JobIds : rs[i].state = "none"
FreshId(rs) == CHOOSE i \in JobIds :
                 /\ rs[i].state = "none"
                 /\ \A j \in JobIds : rs[j].state = "none" => i <= j

\* The sequence q without its k-th element.
Remove(q, k) == SubSeq(q, 1, k - 1) \o SubSeq(q, k + 1, Len(q))

\* The options object of call c, as it is now: the object the caller keeps
\* and shares between calls, or the object of this call alone.
Opts(c) == IF c.shared THEN kept.f ELSE c.options

\* A publish call whose getArgs resolved with r: insertJob has not run yet.
\* The call keeps a reference to the options object; `given' is what the
\* object held when the call was made, `aliased' whether it is the caller's
\* object (and not the {} getArgs makes for a missing one), `rewritten'
\* whether the caller has assigned the object since.
NewCall(form, r, shared) ==
    [pc |-> "args", form |-> form, name |-> r.name, data |-> r.data,
     shared |-> shared, rewritten |-> FALSE,
     options |-> IF shared THEN NoFields ELSE r.options,
     given |-> r.options, aliased |-> r.aliased, round |-> 0,
     values |-> NoValues, rowCount |-> 0, occupied |-> FALSE, inserts |-> <<>>]

\* insertJob(name, data, options, singletonOffset) up to executeSql: the
\* values are computed from the options object as it is now, and sent.
Sent(c, options, singletonOffset) ==
    [c EXCEPT !.pc = "sent",
              !.round = @ + 1,
              !.values = InsertValues(0, c.name, c.data, options, singletonOffset)]

\* How a publish call that ends with the given kind ("id" or "null") is
\* recorded: the id returned, the rounds of insertJob, whether the next slot
\* was asked for when the call was made, whether the first insert found its
\* slot occupied, the rows the last insert inserted, the window of the last
\* insert, whether insertJob worked on the caller's own options object and
\* whether the caller shares it between calls and has assigned it during
\* the call, that object as the call
\* leaves it and as the call was given it, and the inserts the call
\* executed (id, startIn, singletonSeconds, singletonOffset, row count).
PublishEnded(kind, c, options) ==
    [kind |-> kind, id |-> IF kind = "id" THEN c.values.id ELSE 0,
     form |-> c.form, round |-> c.round, nextSlot |-> c.given.singletonNextSlot,
     occupied |-> c.occupied, inserted |-> c.rowCount,
     seconds |-> c.values.singletonSeconds, aliased |-> c.aliased,
     shared |-> c.shared, rewritten |-> c.rewritten, options |-> options,
     given |-> c.given, inserts |-> c.inserts]

\* publish(...args): getArgs runs at once; a rejection goes to the caller,
\* a resolution waits for insertJob, which runs in a later turn.  The
\* options are a literal of the call (ref "own") or the object the caller
\* keeps (ref "kept"), passed as it is now.
Publish(form, n, d, o, ref) ==
    LET r == PublishGetArgs(PublishArgs(form, n, d, o))
    IN  /\ ref = "kept" => kept.live /\ o = JsObject(kept.f)
        /\ lastCall' = [form |-> form, name |-> n, data |-> d, options |-> o,
                        accepted |-> r.ok]
        /\ IF ~r.ok
             THEN /\ lastPublish' = [NoPublish EXCEPT !.kind = "rejected",
                                                      !.form = form]
                  /\ UNCHANGED pubs
             ELSE /\ Len(pubs) < MaxInFlight
                  /\ pubs' = Append(pubs, NewCall(form, r, ref = "kept" /\ r.aliased))
                  /\ UNCHANGED lastPublish
        /\ UNCHANGED <<rows, kept>>
        /\ UNCHANGED procVars
        /\ UNCHANGED <<now, lastFetch, completeLog, lastCancel, lastSweep>>

\* The caller makes the options object it keeps, or assigns its properties
\* anew, in any turn: before a call, between the calls, or between the
\* steps of the calls that hold a reference to it.
CallerSets(fields) ==
    LET held == \E k \in 1..Len(pubs) : pubs[k].shared
    IN  /\ held => kept.sets < MaxSets
        /\ ~kept.live \/ fields # kept.f
        /\ kept' = [live |-> TRUE, f |-> fields, given |-> fields,
                    sets |-> IF held THEN kept.sets + 1 ELSE kept.sets]
        /\ pubs' = [k \in 1..Len(pubs) |->
                      IF pubs[k].shared THEN [pubs[k] EXCEPT !.rewritten = TRUE]
                      ELSE pubs[k]]
        /\ UNCHANGED <<rows, now, lastCall, lastPublish, lastFetch, completeLog,
                       lastCancel, lastSweep>>
        /\ UNCHANGED procVars

\* getArgs(args).then(...): insertJob runs for the k-th call in flight and
\* sends its first insert, with singletonOffset 0.
InsertSend(k) ==
    /\ k \in 1..Len(pubs)
    /\ pubs[k].pc = "args"
    /\ pubs' = [pubs EXCEPT ![k] = Sent(@, Opts(@), 0)]
    /\ UNCHANGED <<rows, now, kept, lastCall, lastPublish, lastFetch, completeLog,
                   lastCancel, lastSweep>>
    /\ UNCHANGED procVars

\* The store runs the insert the k-th call has sent and answers with its
\* row count.
InsertRun(k) ==
    /\ k \in 1..Len(pubs)
    /\ pubs[k].pc = "sent"
    /\ LET c == pubs[k]
           rowCount == InsertRowCount(rows, now, c.values)
           values == [c.values EXCEPT
                        !.id = IF rowCount = 1 THEN FreshId(rows) ELSE 0]
       IN  /\ rowCount = 1 => HasFreeId(rows)
           /\ rows' = InsertPlan(rows, now, values)
           /\ pubs' = [pubs EXCEPT ![k] =
                         [c EXCEPT
                            !.pc = "answered",
                            !.values = values,
                            !.rowCount = rowCount,
                            !.occupied = IF c.round = 1 THEN rowCount = 0 ELSE @,
                            !.inserts = Append(@, [id |-> values.id,
                                                   startIn |-> values.startIn,
                                                   seconds |-> values.singletonSeconds,
                                                   offset |-> values.singletonOffset,
                                                   rowCount |-> rowCount])]]
    /\ UNCHANGED <<now, kept, lastCall, lastPublish, lastFetch, completeLog,
                   lastCancel, lastSweep>>
    /\ UNCHANGED procVars

\* The continuation of the k-th call's insert runs on the row count: the
\* call ends with the id or with null, or the options object is written
\* and insertJob is called again for the next slot, which sends the insert
\* of the retry.  The continuation reads options.singletonNextSlot from the
\* object as it is now; singletonSeconds is the value insertJob computed
\* before it sent the insert.
InsertThen(k) ==
    /\ k \in 1..Len(pubs)
    /\ pubs[k].pc = "answered"
    /\ LET c == pubs[k]
           outcome == InsertOutcome(c.rowCount, Opts(c))
           singletonSeconds == c.values.singletonSeconds
           retried == RetryOptions(Opts(c), singletonSeconds)
       IN  \/ /\ outcome \in {"id", "null"}
              /\ lastPublish' = PublishEnded(outcome, c, Opts(c))
              /\ pubs' = Remove(pubs, k)
              /\ UNCHANGED kept
           \/ /\ outcome = "retry"
              /\ pubs' = [pubs EXCEPT ![k] =
                            Sent([c EXCEPT !.options = IF c.shared THEN @ ELSE retried],
                                 retried, singletonSeconds)]
              /\ kept' = IF c.shared THEN [kept EXCEPT !.f = retried] ELSE kept
              /\ UNCHANGED lastPublish
    /\ UNCHANGED <<rows, now, lastCall, lastFetch, completeLog, lastCancel, lastSweep>>
    /\ UNCHANGED procVars

\* ------------------------------------------------ fetch, complete, cancel
\* A fetch that returns null whatever the store claimed.
FetchResultNone(claimed) == 0

\* What fetch's continuation returns for the rows of the result set: null
\* (0) for none, else the first row's id.
FetchResult(claimed) == IF claimed = {} THEN 0 ELSE CHOOSE i \in claimed : TRUE

\* fetch(name) is what a worker's fetcher and a direct caller both call: the
\* call sends the fetch plan and returns to the event loop; the store runs
\* the plan; the continuation of the call runs in a later turn.
Callers == 1..MaxCallers

\* A call of a caller: where it is ("idle", "sent" while the plan waits for
\* the store, "answered" when the store has run it and the continuation has
\* not), the queue it asks for, the rows the store claimed for it, the id it
\* returned (0 for null), and whether the plan of another call claimed a row
\* of its queue while its own plan waited for the store.
IdleCall == [pc |-> "idle", name |-> "", claimed |-> {}, got |-> 0, raced |-> FALSE]

\* fetch(name) up to executeSql: the plan is sent.
FetchCall(c, name) ==
    /\ calls[c].pc = "idle"
    /\ calls' = [calls EXCEPT ![c] = [IdleCall EXCEPT !.pc = "sent", !.name = name]]
    /\ UNCHANGED <<storeVars, finishes, workerVars>>
    /\ UNCHANGED monitorVars

\* The calls after the store has run the plan of call c and claimed the rows
\* `claimed' for it.
Answered(c, claimed) ==
    [d \in Callers |->
       IF d = c THEN [calls[c] EXCEPT !.pc = "answered", !.claimed = claimed]
       ELSE IF /\ calls[d].pc = "sent"
               /\ calls[d].name = calls[c].name
               /\ claimed # {}
              THEN [calls[d] EXCEPT !.raced = TRUE]
              ELSE calls[d]]

\* The store runs the plan of call c: it claims one eligible row, if any.
FetchRun(c) ==
    LET eligible == Eligible(rows, now, calls[c].name)
    IN  /\ calls[c].pc = "sent"
        /\ \E claimed \in IF eligible = {} THEN {{}} ELSE {{i} : i \in eligible} :
              /\ rows' = ClaimRows(rows, now, claimed)
              /\ calls' = Answered(c, claimed)
        /\ UNCHANGED <<now, pubs, kept, lastCall, lastPublish, lastFetch, completeLog,
                       lastCancel, lastSweep>>
        /\ UNCHANGED <<finishes, workerVars>>
        /\ UNCHANGED monitorVars

\* The continuation of call c runs on the result set: the call returns the
\* job of the first row, or null.
FetchReturn(c) ==
    /\ calls[c].pc = "answered"
    /\ calls' = [calls EXCEPT ![c].pc = "idle",
                              ![c].got = FetchResult(calls[c].claimed),
                              ![c].claimed = {}]
    /\ lastFetch' = [name |-> calls[c].name, id |-> FetchResult(calls[c].claimed)]
    /\ UNCHANGED <<rows, now, pubs, kept, lastCall, lastPublish, completeLog,
                   lastCancel, lastSweep>>
    /\ UNCHANGED <<finishes, workerVars>>
    /\ UNCHANGED monitorVars

\* complete / cancel without the assertion on the row count.
FinishResultUnchecked(rowCount) == "id"

\* What complete / cancel return for the store's row count:
\* assert(result.rowCount === 1, ...); return id.
FinishResult(rowCount) == IF rowCount = 1 THEN "id" ELSE "not-found"

\* An id publish has returned to its caller.
Published(i) ==
    /\ rows[i].state # "none"
    /\ \A k \in 1..Len(pubs) : pubs[k].values.id # i

NoDispatch == [w |-> 0, id |-> 0, at |-> NoTime]

\* The complete(id) calls in flight.
Completing == {k \in 1..Len(finishes) : finishes[k].op = "complete"}

\* The number the next complete call has among the complete calls, in order
\* of call.
NextComplete == Len(completeLog) + Cardinality(Completing) + 1

\* A complete(id) or cancel(id) call up to executeSql: the plan is sent.
\* `nth' is the number of the call among the complete calls (0 for a
\* cancel), `from' the dispatch whose thunk made the call, `rowCount' the
\* store's answer and `was' the state the store found the row in, once it
\* has run the plan.
SentFinish(op, i, d) ==
    [op |-> op, id |-> i, nth |-> IF op = "complete" THEN NextComplete ELSE 0,
     pc |-> "sent", rowCount |-> 0, was |-> "none", from |-> d]

\* complete(id), for an id publish has returned: the plan is sent.
CompleteCall(i) ==
    /\ Published(i)
    /\ Len(finishes) < MaxInFlight
    /\ Len(completeLog) + Cardinality(Completing) < MaxCompletes
    /\ finishes' = Append(finishes, SentFinish("complete", i, NoDispatch))
    /\ UNCHANGED <<storeVars, calls, workerVars>>
    /\ UNCHANGED monitorVars

\* cancel(id), for an id publish has returned: the plan is sent.
CancelCall(i) ==
    /\ Published(i)
    /\ Len(finishes) < MaxInFlight
    /\ finishes' = Append(finishes, SentFinish("cancel", i, NoDispatch))
    /\ UNCHANGED <<storeVars, calls, workerVars>>
    /\ UNCHANGED monitorVars

\* The k-th call in flight after the store has run its plan on the rows rs.
Finished(k, rs) ==
    [finishes EXCEPT ![k].pc = "answered",
                     ![k].rowCount = FinishRowCount(rs, finishes[k].id),
                     ![k].was = rs[finishes[k].id].state]

\* The store runs the plan of the k-th call in flight, a complete.
CompleteRun(k) ==
    /\ k \in 1..Len(finishes)
    /\ finishes[k].op = "complete"
    /\ finishes[k].pc = "sent"
    /\ rows' = CompletePlan(rows, finishes[k].id)
    /\ finishes' = Finished(k, rows)
    /\ UNCHANGED <<now, pubs, kept, lastCall, lastPublish, lastFetch, completeLog,
                   lastCancel, lastSweep>>
    /\ UNCHANGED <<calls, workerVars>>
    /\ UNCHANGED monitorVars

\* The continuation of the k-th call in flight, a complete, runs on the row
\* count: the call returns the id or fails.  A callback whose thunk made a
\* call that returned the id holds its job no more; a call that failed has
\* completed nothing.
CompleteThen(k) ==
    /\ k \in 1..Len(finishes)
    /\ finishes[k].op = "complete"
    /\ finishes[k].pc = "answered"
    /\ completeLog' = Append(completeLog,
                             [id |-> finishes[k].id, nth |-> finishes[k].nth,
                              result |-> FinishResult(finishes[k].rowCount)])
    /\ processing' = IF FinishResult(finishes[k].rowCount) = "id"
                        THEN processing \ {finishes[k].from}
                        ELSE processing
    /\ finishes' = Remove(finishes, k)
    /\ UNCHANGED <<rows, now, pubs, kept, lastCall, lastPublish, lastFetch, lastCancel,
                   lastSweep>>
    /\ UNCHANGED <<calls, workers, subs, team, requests, immediates, dispatches, callbacks,
                   thunks, errors, thrown>>
    /\ UNCHANGED monitorVars

\* The store runs the plan of the k-th call in flight, a cancel.
CancelRun(k) ==
    /\ k \in 1..Len(finishes)
    /\ finishes[k].op = "cancel"
    /\ finishes[k].pc = "sent"
    /\ rows' = CancelPlan(rows, finishes[k].id)
    /\ finishes' = Finished(k, rows)
    /\ UNCHANGED <<now, pubs, kept, lastCall, lastPublish, lastFetch, completeLog,
                   lastCancel, lastSweep>>
    /\ UNCHANGED <<calls, workerVars>>
    /\ UNCHANGED monitorVars

\* The continuation of the k-th call in flight, a cancel, runs on the row
\* count: the call returns the id or fails.
CancelThen(k) ==
    /\ k \in 1..Len(finishes)
    /\ finishes[k].op = "cancel"
    /\ finishes[k].pc = "answered"
    /\ lastCancel' = [id |-> finishes[k].id,
                      ok |-> FinishResult(finishes[k].rowCount) = "id",
                      was |-> finishes[k].was]
    /\ finishes' = Remove(finishes, k)
    /\ UNCHANGED <<rows, now, pubs, kept, lastCall, lastPublish, lastFetch, completeLog,
                   lastSweep>>
    /\ UNCHANGED <<calls, workerVars>>
    /\ UNCHANGED monitorVars

\* ---------------------------------------------------- expiration sweep
\* An `expired' event that does not carry the row count.
ExpiredEventFlag(rowCount) == IF rowCount # 0 THEN 1 ELSE 0

\* if (result.rowCount) self.emit('expired', result.rowCount): the count the
\* event carries, 0 for no event.
ExpiredEvent(rowCount) == IF rowCount # 0 THEN rowCount ELSE 0

Tick ==
    /\ now < MaxTime
    /\ now' = now + 1
    /\ UNCHANGED procVars
    /\ UNCHANGED <<rows, pubs, kept, lastCall, lastPublish, lastFetch, completeLog,
                   lastCancel, lastSweep>>

\* ------------------------------------------------------------ subscribe
\* The options of subscribe: teamSize (0 when absent) and whether one of the
\* newJobCheckInterval keys is present, and then whether its value is valid.
SubFields(teamSize, interval) == [teamSize |-> teamSize, interval |-> interval]

SubRejected(msg) == [ok |-> FALSE, error |-> msg, teamSize |-> 0]

\* Attorney.applyNewJobCheckInterval: fails on a value out of range.
IntervalValid(options) == options.interval # "invalid"

\* subscribe's getArgs(args): the callback and the normalised options, or the
\* error the promise is rejected with.
SubscribeGetArgs(name, args) ==
    LET callback == IF Len(args) = 1 THEN args[1]
                    ELSE IF Len(args) = 2 THEN args[2] ELSE JsUndefined
        options == IF Len(args) = 1 THEN JsObject(SubFields(0, "absent"))
                   ELSE IF Len(args) = 2
                          THEN IF Truthy(args[1]) THEN args[1]
                               ELSE JsObject(SubFields(0, "absent"))
                          ELSE JsUndefined
        opts == IF Truthy(options) THEN options.f ELSE SubFields(0, "absent")
    IN  IF ~Truthy(name) THEN SubRejected("boss requires all jobs to have a name")
        ELSE IF TypeOf(callback) # "function"
               THEN SubRejected("expected a callback function")
        ELSE IF Truthy(options) /\ TypeOf(options) # "object"
               THEN SubRejected("expected config to be an object")
        ELSE IF opts.interval # "absent" /\ ~IntervalValid(opts)
               THEN SubRejected("invalid interval")
        ELSE [ok |-> TRUE, error |-> "",
              teamSize |-> IF opts.teamSize # 0 THEN opts.teamSize ELSE 1]

\* options.teamSize of a subscribe call that waits for its registration, as
\* it is now: the property of the object the caller keeps, or of the object
\* of this call alone.
TeamSize(s) == IF s.shared THEN team.teamSize ELSE s.teamSize

\* The workers the subscribe calls q that wait for their registration will
\* add when the caller's object holds the team size `size'.
PendingOf(q, size) ==
    LET Size(k) == IF q[k].shared THEN size ELSE q[k].teamSize
        Sum[k \in 0..Len(q)] == IF k = 0 THEN 0 ELSE Sum[k - 1] + Size(k)
    IN  Sum[Len(q)]

Pending == PendingOf(subs, team.teamSize)

\* The workers the caller of an accepted subscribe(name, options, callback)
\* asked for: options.teamSize || 1 on the options, or on {} for a call
\* without options or with falsy ones.
Asked(args) ==
    IF Len(args) = 2 /\ Truthy(args[1]) /\ args[1].f.teamSize # 0
      THEN args[1].f.teamSize
      ELSE 1

\* subscribe(name, ...args) up to the promise of getArgs: a rejection goes to
\* the caller, a resolution waits for register.  The options are a literal
\* of the call (ref "own") or the object the caller keeps (ref "kept"):
\* getArgs normalises teamSize in the object it was handed, and register
\* gets that object.
Subscribe(name, args, ref) ==
    LET r == SubscribeGetArgs(name, args)
    IN  /\ ref = "kept" => /\ team.live
                           /\ args = <<JsObject(SubFields(team.teamSize, "absent")),
                                       JsFunction>>
        /\ IF r.ok
             THEN /\ Len(workers) + Pending + r.teamSize <= MaxWorkers
                  /\ requests.sum + Asked(args) <= MaxWorkers
                  /\ subs' = Append(subs, [name |-> name.s, teamSize |-> r.teamSize,
                                           shared |-> ref = "kept",
                                           rewritten |-> FALSE])
                  /\ team' = IF ref = "kept" THEN [team EXCEPT !.teamSize = r.teamSize]
                             ELSE team
                  /\ requests' = [requests EXCEPT
                                    !.sum = @ + Asked(args),
                                    !.afterStop = @ \/ stopped \/ stops > 0]
             ELSE UNCHANGED <<subs, team, requests>>
        /\ UNCHANGED <<storeVars, calls, finishes, workers, immediates, dispatches, callbacks,
                       processing, thunks, errors, thrown>>
        /\ UNCHANGED monitorVars

\* The caller makes the options object it keeps for subscribe, or assigns
\* its teamSize anew, in any turn: the subscribe calls that wait for their
\* registration hold a reference to it.
CallerSetsTeam(size) ==
    LET held == \E k \in 1..Len(subs) : subs[k].shared
    IN  /\ ~team.live \/ size # team.teamSize
        /\ Len(workers) + PendingOf(subs, size) <= MaxWorkers
        /\ team' = [live |-> TRUE, teamSize |-> size]
        /\ subs' = [k \in 1..Len(subs) |->
                      IF subs[k].shared THEN [subs[k] EXCEPT !.rewritten = TRUE]
                      ELSE subs[k]]
        /\ requests' = [requests EXCEPT !.rewritten = @ \/ held]
        /\ UNCHANGED <<storeVars, calls, finishes, workers, immediates, dispatches, callbacks,
                       processing, thunks, errors, thrown>>
        /\ UNCHANGED monitorVars

\* new Worker(workerConfig); worker.start(): a started worker has sent its
\* first fetch.  `claimed' and `at' are the store's answer to the fetch the
\* worker has in flight: the rows it claimed and their startedAt.
StartedWorker(name) == [name |-> name, pc |-> "fetching", stopped |-> FALSE,
                        listed |-> TRUE, claimed |-> {}, at |-> NoTime]

\* A registration that starts one worker whatever the team size.
TeamOfOne(name, size) == <<StartedWorker(name)>>

\* for(let w=0; w < options.teamSize; w++): the workers of one registration.
Team(name, size) == [k \in 1..size |-> StartedWorker(name)]

\* register(options, callback) of the oldest pending subscribe call: the
\* loop reads options.teamSize as the object holds it now.
Register ==
    /\ subs # <<>>
    /\ workers' = workers \o Team(Head(subs).name, TeamSize(Head(subs)))
    /\ subs' = Tail(subs)
    /\ UNCHANGED <<team, requests>>
    /\ UNCHANGED <<storeVars, calls, finishes, immediates, dispatches, callbacks, processing, thunks,
                   errors, thrown>>
    /\ UNCHANGED monitorVars

\* -------------------------------------------------------------- workers
\* onJob(job): nothing for null; else the `job' event, and the callback is
\* handed to setImmediate.  The dispatch carries the worker, the job id and
\* the startedAt of its claim.
OnJob(w, id, at) ==
    IF id = 0 THEN <<>> ELSE <<[w |-> w, id |-> id, at |-> at]>>

\* A responder that emits no event.
JobEventsNone(id) == 0

\* if(!job) return; self.emit('job', job): the `job' events of one call of
\* the responder, none for null (0).
JobEvents(id) == IF id = 0 THEN 0 ELSE 1

\* The jobs the store has claimed for workers whose fetch has not returned.
Claiming == {w \in 1..Len(workers) : workers[w].claimed # {}}

\* The store runs the fetch of worker w: it claims one eligible row, if any.
WorkerRun(w) ==
    LET eligible == Eligible(rows, now, workers[w].name)
    IN  /\ workers[w].pc = "fetching"
        /\ \E claimed \in IF eligible = {} THEN {{}} ELSE {{i} : i \in eligible} :
              /\ claimed # {} => dispatches + Cardinality(Claiming) < MaxDispatches
              /\ rows' = ClaimRows(rows, now, claimed)
              /\ workers' = [workers EXCEPT
                               ![w].pc = "answered",
                               ![w].claimed = claimed,
                               ![w].at = IF claimed = {} THEN NoTime ELSE now]
        /\ UNCHANGED <<now, pubs, kept, lastCall, lastPublish, lastFetch, completeLog,
                       lastCancel, lastSweep>>
        /\ UNCHANGED <<calls, finishes, subs, team, requests, immediates, dispatches,
                       callbacks, processing, thunks, errors, thrown>>
        /\ UNCHANGED monitorVars

\* The fetch of worker w returns: the responder runs on the job or on null,
\* and the worker goes to sleep for its interval.
WorkerFetched(w) ==
    LET id == FetchResult(workers[w].claimed)
    IN  /\ workers[w].pc = "answered"
        /\ immediates' = immediates \o OnJob(w, id, workers[w].at)
        /\ dispatches' = dispatches + JobEvents(id)
        /\ workers' = [workers EXCEPT ![w].pc = "sleeping",
                                      ![w].claimed = {},
                                      ![w].at = NoTime]
        /\ UNCHANGED <<storeVars, calls, finishes, subs, team, requests, callbacks,
                       processing, thunks, errors, thrown>>
        /\ UNCHANGED monitorVars

\* The sleep of worker w ends: a worker that is not stopped fetches again.
WorkerWake(w) ==
    /\ workers[w].pc = "sleeping"
    /\ ~workers[w].stopped
    /\ workers' = [workers EXCEPT ![w].pc = "fetching"]
    /\ UNCHANGED <<storeVars, calls, finishes, subs, team, requests, immediates, dispatches,
                   callbacks, processing, thunks, errors, thrown>>
    /\ UNCHANGED monitorVars

\* A catch that swallows the error of the callback.
CallbackErrorsSwallowed(outcome) == 0

\* try { callback(job, thunk) } catch(error) { onError(error) }: the `error'
\* events one run of the callback emits.
CallbackErrors(outcome) == IF outcome = "throws" THEN 1 ELSE 0

\* The complete call the thunk of dispatch d makes:
\* () => self.complete(job.id).
Thunk(d) == SentFinish("complete", d.id, d)

\* The oldest immediate runs: the user callback gets the job and the thunk,
\* and returns, holding the job, or throws.  `thunked' tells whether the
\* callback calls the thunk while it runs, before it returns or throws.
RunCallback(outcome, thunked) ==
    /\ immediates # <<>>
    /\ immediates' = Tail(immediates)
    /\ IF thunked
         THEN /\ Len(finishes) < MaxInFlight
              /\ NextComplete <= MaxCompletes
              /\ finishes' = Append(finishes, Thunk(Head(immediates)))
         ELSE UNCHANGED finishes
    /\ thunks' = thunks \cup {Head(immediates)}
    /\ errors' = errors + CallbackErrors(outcome)
    /\ IF outcome = "throws"
         THEN /\ thrown' = [count |-> thrown.count + 1, last |-> Head(immediates)]
              /\ UNCHANGED processing
         ELSE /\ processing' = processing \cup {Head(immediates)}
              /\ UNCHANGED thrown
    /\ callbacks' = callbacks + 1
    /\ UNCHANGED <<storeVars, calls, workers, subs, team, requests, dispatches>>
    /\ UNCHANGED monitorVars

\* The thunk of dispatch d is called in a later turn.  Whoever was handed
\* the thunk may call it, whether the callback returned or threw, whether
\* or not a call of it is in flight or has returned, any number of times:
\* each call is a complete(job.id), which sends the plan.
ThunkCall(d) ==
    /\ d \in thunks
    /\ Len(finishes) < MaxInFlight
    /\ NextComplete <= MaxCompletes
    /\ finishes' = Append(finishes, Thunk(d))
    /\ UNCHANGED <<storeVars, calls, workerVars>>
    /\ UNCHANGED monitorVars

\* ------------------------------------------------- monitor, close, stop
\* A chain of monitor(): "initial" while its first sweep is in flight,
\* "sweeping" while a sweep its timer started is in flight, "answered" when
\* the store has answered the sweep and the continuation of expire() has not
\* run yet, "init" when init is the next callback of the chain, "armed"
\* while its timer is pending, "rejected" when the first sweep failed,
\* "ended" when init found the manager stopped, "cleared" when stop cleared
\* its timer.  `first' tells the sweep of monitor() from the sweeps of the
\* timer; `ok' and `rowCount' are the store's answer to the last sweep.
NewChain == [pc |-> "initial", first |-> TRUE, ok |-> TRUE, rowCount |-> 0]

\* monitor(): the first expire() is sent.
Monitor ==
    /\ Len(monitors) < MaxMonitors
    /\ monitors' = Append(monitors, NewChain)
    /\ UNCHANGED <<storeVars, calls, finishes, workerVars, expireTimer, stopped, stops>>

\* init(): nothing when stopped, else the timer is set and kept in
\* this.expireTimer.
InitPc(isStopped) == IF isStopped THEN "ended" ELSE "armed"

\* A first sweep that emits its error too.
SweepErrorsAlways(first) == 1

\* The `error' events a failed sweep emits: none when it is the first sweep
\* (monitor's promise is rejected), one when the timer started it.
SweepErrors(first) == IF first THEN 0 ELSE 1

\* What follows a failed sweep: the chain of a first sweep is over; check()
\* goes on with init.
AfterFailure(first) == IF first THEN "rejected" ELSE "init"

\* The store runs the sweep of chain c and answers, or fails.
SweepRun(c, ok) ==
    /\ monitors[c].pc \in {"initial", "sweeping"}
    /\ rows' = IF ok THEN ExpirePlan(rows, now) ELSE rows
    /\ monitors' = [monitors EXCEPT
                      ![c].pc = "answered",
                      ![c].ok = ok,
                      ![c].rowCount = IF ok THEN Cardinality(Overdue(rows, now))
                                      ELSE 0]
    /\ UNCHANGED <<now, pubs, kept, lastCall, lastPublish, lastFetch, completeLog,
                   lastCancel, lastSweep>>
    /\ UNCHANGED <<calls, finishes, workerVars, expireTimer, stopped, stops>>

\* The continuation of expire() runs on the answer: `expired' is emitted
\* for the rows of a sweep that succeeded; the failure of a first sweep
\* rejects the promise of monitor(), the failure of a sweep of the timer is
\* caught and emitted as `error'.  init is the next callback, but for a
\* rejected chain.
SweepThen(c) ==
    LET m == monitors[c]
    IN  /\ m.pc = "answered"
        /\ IF m.ok
             THEN /\ lastSweep' = [failed |-> FALSE, rowCount |-> m.rowCount,
                                   emitted |-> ExpiredEvent(m.rowCount)]
                  /\ monitors' = [monitors EXCEPT ![c].pc = "init"]
                  /\ UNCHANGED errors
             ELSE /\ errors + SweepErrors(m.first) <= MaxFailures
                  /\ errors' = errors + SweepErrors(m.first)
                  /\ lastSweep' = [failed |-> TRUE, rowCount |-> 0, emitted |-> 0]
                  /\ monitors' = [monitors EXCEPT ![c].pc = AfterFailure(m.first)]
        /\ UNCHANGED <<rows, now, pubs, kept, lastCall, lastPublish, lastFetch,
                       completeLog, lastCancel>>
        /\ UNCHANGED <<calls, finishes, workers, subs, team, requests, immediates, dispatches,
                       callbacks, processing, thunks, thrown, expireTimer, stopped,
                       stops>>

\* init() of chain c runs: it reads this.stopped and sets the timer.
InitRuns(c) ==
    /\ monitors[c].pc = "init"
    /\ monitors' = [monitors EXCEPT ![c].pc = InitPc(stopped)]
    /\ expireTimer' = IF InitPc(stopped) = "armed" THEN c ELSE expireTimer
    /\ UNCHANGED <<storeVars, calls, finishes, workerVars, stopped, stops>>

\* The timer of chain c fires: check() sends expire().
TimerFires(c) ==
    /\ monitors[c].pc = "armed"
    /\ monitors' = [monitors EXCEPT ![c].pc = "sweeping", ![c].first = FALSE]
    /\ UNCHANGED <<storeVars, calls, finishes, workerVars, expireTimer, stopped, stops>>

\* A close that stops the workers and keeps them in the registry.
ClosedStopOnly(ws) ==
    [w \in 1..Len(ws) |->
       IF ws[w].listed THEN [ws[w] EXCEPT !.stopped = TRUE] ELSE ws[w]]

\* close(): every worker of the registry is stopped and the registry is
\* emptied.
Closed(ws) ==
    [w \in 1..Len(ws) |->
       IF ws[w].listed THEN [ws[w] EXCEPT !.stopped = TRUE, !.listed = FALSE]
       ELSE ws[w]]

Close ==
    /\ workers' = Closed(workers)
    /\ UNCHANGED <<storeVars, calls, finishes, subs, team, requests, immediates, dispatches,
                   callbacks, processing, thunks, errors, thrown, monitorVars>>

\* stop(): close(), and the continuation is queued.
Stop ==
    /\ stops < MaxStops
    /\ workers' = Closed(workers)
    /\ stops' = stops + 1
    /\ UNCHANGED <<storeVars, calls, finishes, subs, team, requests, immediates, dispatches,
                   callbacks, processing, thunks, errors, thrown, monitors, expireTimer, stopped>>

\* clearTimeout(this.expireTimer): the timer the handle names is cancelled
\* when it is still pending.
Cleared(ms, handle) ==
    [c \in 1..Len(ms) |->
       IF c = handle /\ ms[c].pc = "armed" THEN [ms[c] EXCEPT !.pc = "cleared"]
       ELSE ms[c]]

\* The continuation of a stop() call.
StopThen ==
    /\ stops > 0
    /\ stops' = stops - 1
    /\ stopped' = TRUE
    /\ monitors' = Cleared(monitors, expireTimer)
    /\ UNCHANGED <<storeVars, calls, finishes, workerVars, expireTimer>>

\* --------------------------------------------------- the specifications
vars == <<storeVars, procVars>>

Init ==
    /\ StoreInit
    /\ calls = [c \in Callers |-> IdleCall]
    /\ finishes = <<>>
    /\ workers = <<>>
    /\ subs = <<>>
    /\ team = [live |-> FALSE, teamSize |-> 0]
    /\ immediates = <<>>
    /\ dispatches = 0
    /\ callbacks = 0
    /\ requests = [sum |-> 0, afterStop |-> FALSE, rewritten |-> FALSE]
    /\ processing = {}
    /\ thunks = {}
    /\ errors = 0
    /\ thrown = [count |-> 0, last |-> NoDispatch]
    /\ monitors = <<>>
    /\ expireTimer = 0
    /\ stopped = FALSE
    /\ stops = 0

\* The job lifecycle: jobs published with a short visibility window,
\* fetched, completed, cancelled and expired as time passes.
LifecycleOptions ==
    {JsObject([NoFields EXCEPT !.expireIn = "1 second"])}

PublishJob ==
    \E n \in {"a"}, o \in LifecycleOptions :
       Publish("positional", JsString(n), JsString("payload"), o, "own")

\* A caller that waits for the end of a publish before it publishes again.
PublishNext ==
    /\ pubs = <<>>
    /\ PublishJob

\* A caller that publishes one job.
PublishOne ==
    /\ pubs = <<>>
    /\ \A i \in JobIds : rows[i].state = "none"
    /\ PublishJob

\* Time passes, up to MaxWait.
Wait ==
    /\ now < MaxWait
    /\ Tick

\* monitor() called once.
MonitorOnce ==
    /\ monitors = <<>>
    /\ Monitor

Next ==
    \/ PublishNext
    \/ \E k \in 1..MaxInFlight : InsertSend(k)
    \/ \E k \in 1..MaxInFlight : InsertRun(k)
    \/ \E k \in 1..MaxInFlight : InsertThen(k)
    \/ FetchCall(1, "a")
    \/ FetchRun(1)
    \/ FetchReturn(1)
    \/ MonitorOnce
    \/ \E c \in 1..Len(monitors) : SweepRun(c, TRUE)
    \/ \E c \in 1..Len(monitors) : SweepThen(c)
    \/ \E c \in 1..Len(monitors) : InitRuns(c)
    \/ \E c \in 1..Len(monitors) : TimerFires(c)
    \/ Wait

Spec == Init /\ [][Next]_vars

\* The complete calls of a job: one job published, fetched and expired as
\* time passes, and complete calls that wait for the store together.
NextCompletes ==
    \/ PublishOne
    \/ \E k \in 1..MaxInFlight : InsertSend(k)
    \/ \E k \in 1..MaxInFlight : InsertRun(k)
    \/ \E k \in 1..MaxInFlight : InsertThen(k)
    \/ FetchCall(1, "a")
    \/ FetchRun(1)
    \/ FetchReturn(1)
    \/ \E i \in JobIds : CompleteCall(i)
    \/ \E k \in 1..MaxInFlight : CompleteRun(k)
    \/ \E k \in 1..MaxInFlight : CompleteThen(k)
    \/ MonitorOnce
    \/ \E c \in 1..Len(monitors) : SweepRun(c, TRUE)
    \/ \E c \in 1..Len(monitors) : SweepThen(c)
    \/ \E c \in 1..Len(monitors) : InitRuns(c)
    \/ \E c \in 1..Len(monitors) : TimerFires(c)
    \/ Wait

SpecCompletes == Init /\ [][NextCompletes]_vars

\* Singleton throttling: publishes under a key, with a window or without,
\* as time passes.
SingletonOptions ==
    {JsObject(o) : o \in {[NoFields EXCEPT !.singletonSeconds = 2],
                          Keyed(2, FALSE), Keyed(2, TRUE), Keyed(0, TRUE)}}

PublishSingleton ==
    /\ pubs = <<>>
    /\ \E n \in Names, o \in SingletonOptions :
          Publish("positional", JsString(n), JsString("payload"), o, "own")

NextSingleton ==
    \/ PublishSingleton
    \/ \E k \in 1..MaxInFlight : InsertSend(k)
    \/ \E k \in 1..MaxInFlight : InsertRun(k)
    \/ \E k \in 1..MaxInFlight : InsertThen(k)
    \/ Tick

SpecSingleton == Init /\ [][NextSingleton]_vars

\* The inserts of publish: one queue, publishes under a key and a window,
\* asking for the next slot or not, with the options object the caller
\* keeps, passes to publish more than once and assigns, between calls and
\* while calls are in flight.
KeptOptions == {Keyed(2, nextSlot) : nextSlot \in BOOLEAN}

KeepOptions == \E f \in KeptOptions : CallerSets(f)

\* The caller makes its publish calls in one turn, and the next ones when
\* none of them is waiting for its insertJob.
PublishKept ==
    /\ \A k \in 1..Len(pubs) : pubs[k].pc = "args"
    /\ Publish("positional", JsString("a"), JsString("payload"), JsObject(kept.f),
               "kept")

NextInserts ==
    \/ KeepOptions
    \/ PublishKept
    \/ \E k \in 1..MaxInFlight : InsertSend(k)
    \/ \E k \in 1..MaxInFlight : InsertRun(k)
    \/ \E k \in 1..MaxInFlight : InsertThen(k)

SpecInserts == Init /\ [][NextInserts]_vars

\* The two forms of publish, over every kind of name, payload and options.
PublishAny ==
    /\ pubs = <<>>
    /\ \E form \in Forms, n \in NameVals, d \in DataVals, o \in OptionVals :
          Publish(form, n, d, o, "own")

NextArgs ==
    \/ PublishAny
    \/ \E k \in 1..MaxInFlight : InsertSend(k)
    \/ \E k \in 1..MaxInFlight : InsertRun(k)
    \/ \E k \in 1..MaxInFlight : InsertThen(k)

SpecArgs == Init /\ [][NextArgs]_vars

\* The options of the subscriptions: no teamSize, or one up to MaxWorkers.
TeamOptions == {JsObject(SubFields(k, "absent")) : k \in 0..MaxWorkers}

SubscribeTeam ==
    \E o \in TeamOptions : Subscribe(JsString("a"), <<o, JsFunction>>, "own")

\* A caller that subscribes once, for a team of two workers.
SubscribePair ==
    /\ subs = <<>>
    /\ workers = <<>>
    /\ Subscribe(JsString("a"), <<JsObject(SubFields(2, "absent")), JsFunction>>, "own")

\* Subscriptions: the two workers of a team fetch the job of their queue and
\* hand it to the user callback, which returns or throws and may call its
\* thunk, while it runs and later, once and again, while the job expires in
\* the first sweep of the monitor, after which init arms the timer.  The
\* horizon is shorter than the polling interval of the workers and the
\* interval of the monitor's timer: no timer fires.
NextWorkers ==
    \/ PublishOne
    \/ \E k \in 1..MaxInFlight : InsertSend(k)
    \/ \E k \in 1..MaxInFlight : InsertRun(k)
    \/ \E k \in 1..MaxInFlight : InsertThen(k)
    \/ SubscribePair
    \/ Register
    \/ \E w \in 1..Len(workers) : WorkerRun(w)
    \/ \E w \in 1..Len(workers) : WorkerFetched(w)
    \/ \E outcome \in {"returns", "throws"}, thunked \in BOOLEAN :
          RunCallback(outcome, thunked)
    \/ \E d \in thunks : ThunkCall(d)
    \/ \E k \in 1..MaxInFlight : CompleteRun(k)
    \/ \E k \in 1..MaxInFlight : CompleteThen(k)
    \/ MonitorOnce
    \/ \E c \in 1..Len(monitors) : SweepRun(c, TRUE)
    \/ \E c \in 1..Len(monitors) : SweepThen(c)
    \/ \E c \in 1..Len(monitors) : InitRuns(c)
    \/ Wait

SpecWorkers == Init /\ [][NextWorkers]_vars

\* The callbacks of a subscription, which return or throw and never call
\* their thunk: the jobs expire and are handed out again.
NextCallbacks ==
    \/ PublishOne
    \/ \E k \in 1..MaxInFlight : InsertSend(k)
    \/ \E k \in 1..MaxInFlight : InsertRun(k)
    \/ \E k \in 1..MaxInFlight : InsertThen(k)
    \/ SubscribePair
    \/ Register
    \/ \E w \in 1..Len(workers) : WorkerRun(w)
    \/ \E w \in 1..Len(workers) : WorkerFetched(w)
    \/ \E w \in 1..Len(workers) : WorkerWake(w)
    \/ \E outcome \in {"returns", "throws"} : RunCallback(outcome, FALSE)
    \/ MonitorOnce
    \/ \E c \in 1..Len(monitors) : SweepRun(c, TRUE)
    \/ \E c \in 1..Len(monitors) : SweepThen(c)
    \/ \E c \in 1..Len(monitors) : InitRuns(c)
    \/ \E c \in 1..Len(monitors) : TimerFires(c)
    \/ Wait

SpecCallbacks == Init /\ [][NextCallbacks]_vars

\* The caller keeps an options object, passes it to subscribe more than
\* once and assigns its teamSize in any turn.
KeepTeam == \E size \in 0..MaxWorkers : CallerSetsTeam(size)

SubscribeKept ==
    Subscribe(JsString("a"), <<JsObject(SubFields(team.teamSize, "absent")), JsFunction>>,
              "kept")

\* The teams of the subscriptions: subscribe calls with a literal for their
\* options or with the object the caller keeps, their registrations, the
\* workers polling, and close.
NextTeams ==
    \/ SubscribeTeam
    \/ KeepTeam
    \/ SubscribeKept
    \/ Register
    \/ \E w \in 1..Len(workers) : WorkerRun(w)
    \/ \E w \in 1..Len(workers) : WorkerFetched(w)
    \/ \E w \in 1..Len(workers) : WorkerWake(w)
    \/ Close

SpecTeams == Init /\ [][NextTeams]_vars

\* Shutdown: subscriptions, whose workers send their first fetch and are
\* answered, close and stop, while the one monitor sweeps and its sweeps
\* succeed or fail.
NextShutdown ==
    \/ SubscribeTeam
    \/ Register
    \/ \E w \in 1..Len(workers) : WorkerRun(w)
    \/ \E w \in 1..Len(workers) : WorkerFetched(w)
    \/ Close
    \/ Stop
    \/ StopThen
    \/ MonitorOnce
    \/ \E c \in 1..Len(monitors), ok \in BOOLEAN : SweepRun(c, ok)
    \/ \E c \in 1..Len(monitors) : SweepThen(c)
    \/ \E c \in 1..Len(monitors) : InitRuns(c)
    \/ \E c \in 1..Len(monitors) : TimerFires(c)

SpecShutdown == Init /\ [][NextShutdown]_vars

\* The sweeps of the monitor: monitor() called again and again, sweeps that
\* succeed or fail, and stop.
NextSweeps ==
    \/ Monitor
    \/ \E c \in 1..Len(monitors), ok \in BOOLEAN : SweepRun(c, ok)
    \/ \E c \in 1..Len(monitors) : SweepThen(c)
    \/ \E c \in 1..Len(monitors) : InitRuns(c)
    \/ \E c \in 1..Len(monitors) : TimerFires(c)
    \/ Stop
    \/ StopThen

SpecSweeps == Init /\ [][NextSweeps]_vars

\* Terminal states: jobs fetched, completed and cancelled, and then fetched,
\* completed, cancelled and swept again.
NextTerminal ==
    \/ PublishOne
    \/ \E k \in 1..MaxInFlight : InsertSend(k)
    \/ \E k \in 1..MaxInFlight : InsertRun(k)
    \/ \E k \in 1..MaxInFlight : InsertThen(k)
    \/ FetchCall(1, "a")
    \/ FetchRun(1)
    \/ FetchReturn(1)
    \/ \E i \in JobIds : finishes = <<>> /\ CompleteCall(i)
    \/ \E k \in 1..MaxInFlight : CompleteRun(k)
    \/ \E k \in 1..MaxInFlight : CompleteThen(k)
    \/ \E i \in JobIds : finishes = <<>> /\ CancelCall(i)
    \/ \E k \in 1..MaxInFlight : CancelRun(k)
    \/ \E k \in 1..MaxInFlight : CancelThen(k)
    \/ MonitorOnce
    \/ \E c \in 1..Len(monitors) : SweepRun(c, TRUE)
    \/ \E c \in 1..Len(monitors) : SweepThen(c)
    \/ \E c \in 1..Len(monitors) : InitRuns(c)
    \/ \E c \in 1..Len(monitors) : TimerFires(c)
    \/ Wait

SpecTerminal == Init /\ [][NextTerminal]_vars

\* Callers racing for the jobs of a queue, while jobs expire.
NextRace ==
    \/ PublishOne
    \/ \E k \in 1..MaxInFlight : InsertSend(k)
    \/ \E k \in 1..MaxInFlight : InsertRun(k)
    \/ \E k \in 1..MaxInFlight : InsertThen(k)
    \/ \E c \in Callers : FetchCall(c, "a")
    \/ \E c \in Callers : FetchRun(c)
    \/ \E c \in Callers : FetchReturn(c)
    \/ MonitorOnce
    \/ \E c \in 1..Len(monitors) : SweepRun(c, TRUE)
    \/ \E c \in 1..Len(monitors) : SweepThen(c)
    \/ \E c \in 1..Len(monitors) : InitRuns(c)
    \/ \E c \in 1..Len(monitors) : TimerFires(c)
    \/ Wait

SpecRace == Init /\ [][NextRace]_vars

\* ================================================================ claims
Present == {i \in JobIds : rows[i].state # "none"}

\* The results of the complete(i) calls that have returned, in order of
\* call.
CompletesOf(i) ==
    LET mine == {k \in 1..Len(completeLog) : completeLog[k].id = i}
        Before(k) == {j \in mine : completeLog[j].nth < completeLog[k].nth}
    IN  [n \in 1..Cardinality(mine) |->
           completeLog[CHOOSE k \in mine : Cardinality(Before(k)) = n - 1].result]

\* The complete(i) calls made before the call with the number n, returned
\* or in flight.
CalledBefore(i, n) ==
    Cardinality({k \in 1..Len(completeLog) :
                   completeLog[k].id = i /\ completeLog[k].nth < n})
    + Cardinality({k \in Completing : finishes[k].id = i /\ finishes[k].nth < n})

\* The complete(i) calls made so far, returned or in flight.
Called(i) == CalledBefore(i, NextComplete)

\* C1, as stated: for every published id, when complete(id) is invoked
\* twice, the first call returns the id and the second fails with not-found.
C1_CompleteTwiceAsStated ==
    \A k \in 1..Len(completeLog) :
       LET e == completeLog[k]
       IN  e.id \in Present /\ Called(e.id) >= 2
             => /\ CalledBefore(e.id, e.nth) = 0 => e.result = "id"
                /\ CalledBefore(e.id, e.nth) = 1 => e.result = "not-found"

\* The complete(i) calls in flight whose plan updated one row.
Updating(i) ==
    {k \in Completing : /\ finishes[k].id = i
                        /\ finishes[k].pc = "answered"
                        /\ finishes[k].rowCount = 1}

\* C1, amended: complete(id) returns the id only when the store updated one
\* row, that is when the job was active as the store ran the plan, and the
\* job is completed from then on; of all the complete(id) calls at most one
\* returns the id, and every other one fails with not-found, the calls made
\* after it among them.
C1_CompleteOnce ==
    \A i \in Present :
       LET results == CompletesOf(i)
           returned == {k \in 1..Len(results) : results[k] = "id"}
       IN  /\ Cardinality(returned) + Cardinality(Updating(i)) <= 1
           /\ returned # {} => rows[i].state = "completed"
           /\ rows[i].state = "completed" <=> returned # {} \/ Updating(i) # {}
           /\ \A k \in Updating(i) : finishes[k].was = "active"
           /\ \A k \in 1..Len(results) : results[k] \in {"id", "not-found"}

\* C1: some id was completed twice, the first call returning the id and the
\* second failing.
C1_Witness ==
    \E i \in Present : CompletesOf(i) = <<"id", "not-found">>

\* The rows of a name that are in a fetchable state and due at time now.
Fetchable(name) ==
    {i \in JobIds : /\ rows[i].name = name
                    /\ rows[i].state \in {"created", "retry", "expired"}
                    /\ rows[i].startAfter <= now}

\* What C2 asks of a step, for caller c.
FetchRaceStep(c) ==
    /\ calls[c].pc = "sent" /\ calls'[c].pc = "answered"
         => IF Fetchable(calls[c].name) = {}
              THEN calls'[c].claimed = {} /\ rows' = rows
              ELSE \E i \in Fetchable(calls[c].name) :
                      /\ calls'[c].claimed = {i}
                      /\ rows'[i].state = "active"
                      /\ \A j \in JobIds \ {i} : rows'[j] = rows[j]
    /\ calls[c].pc = "answered" /\ calls'[c].pc = "idle"
         => /\ rows' = rows
            /\ IF calls[c].claimed = {} THEN calls'[c].got = 0
               ELSE calls'[c].got \in calls[c].claimed

\* C2: of the fetch calls that race for a row, one returns it and the others
\* do not: the call whose plan the store runs while a row of its queue is
\* fetchable is given such a row, which that run, and no other, takes from
\* fetchable to active, and the call returns that row; a call whose plan the
\* store runs when no row of its queue is fetchable is given none, leaves
\* the table alone and returns null; whatever the order in which the calls
\* return.
C2_FetchRace ==
    [][\A c \in Callers : FetchRaceStep(c)]_vars

\* C2: two calls were in flight for the queue of the table's only row; one
\* has returned the row and the other, waiting for the store as the row was
\* claimed, has returned null.
C2_Witness ==
    \E c, d \in Callers : \E i \in JobIds :
       /\ c # d
       /\ {j \in JobIds : rows[j].state # "none"} = {i}
       /\ rows[i].state = "active"
       /\ calls[c].pc = "idle" /\ calls[c].got = i
       /\ calls[d].pc = "idle" /\ calls[d].got = 0 /\ calls[d].raced

\* The dispatches not yet completed: the callbacks waiting to run and the
\* jobs callbacks hold.
Dispatched == {immediates[k] : k \in 1..Len(immediates)} \cup processing

\* A dispatch whose claim the row still carries.
Current(d) == rows[d.id].state = "active" /\ rows[d.id].startedAt = d.at

C9_CallbackThrow ==
    /\ [](errors = thrown.count)
    /\ [][thrown' # thrown
            => /\ errors' = errors + 1
               /\ workers' = workers
               /\ workers[thrown'.last.w].listed
               /\ ~workers[thrown'.last.w].stopped]_vars

\* C9: the callback threw for a dispatch of a worker, one `error' event was
\* emitted, and the same worker has fetched and dispatched a job since.
C9_Witness ==
    /\ thrown.count = 1 /\ errors = 1
    /\ \E d \in Dispatched : d.w = thrown.last.w /\ d.at > thrown.last.at

\* The chains of monitor() whose timer is pending.
Armed == {c \in 1..Len(monitors) : monitors[c].pc = "armed"}

\* C7, as stated: once the continuation of stop() has run, no expiration
\* timer is armed.
C7_NoTimerAfterStop ==
    stopped => Armed = {}

\* Whether the continuation of a failed sweep of chain c runs in this step.
SweepFails(c) ==
    /\ c <= Len(monitors)
    /\ monitors[c].pc = "answered"
    /\ ~monitors[c].ok
    /\ monitors'[c].pc # "answered"

\* C8, as stated: as long as stop has not been called, a sweep that fails
\* emits one `error' event and goes on with init, which arms the timer
\* again.
C8_FailedSweepRearms ==
    [][/\ \A c \in 1..MaxMonitors :
             SweepFails(c) /\ ~stopped /\ stops = 0
               => errors' = errors + 1 /\ monitors'[c].pc = "init"
       /\ \A c \in 1..Len(monitors) :
             monitors[c].pc = "init" /\ monitors'[c].pc # "init"
             /\ ~stopped /\ stops = 0
               => monitors'[c].pc = "armed"]_vars

\* The bucket boundary after the bucket that time t falls in.
NextBoundary(t, seconds) == seconds * ((t \div seconds) + 1)

\* C4: at most one row exists for every (name, singletonKey, bucket), and a
\* publish without singletonNextSlot that finds its bucket occupied inserts
\* nothing and returns null; an id publish returns is the id of a row.
C4_SingletonUnique ==
    /\ \A i, j \in Present :
          /\ i # j
          /\ rows[i].singletonOn # NoTime
          /\ rows[i].name = rows[j].name
          /\ rows[i].singletonKey = rows[j].singletonKey
          => rows[i].singletonOn # rows[j].singletonOn
    /\ lastPublish.occupied /\ ~lastPublish.nextSlot
          => lastPublish.kind = "null" /\ lastPublish.inserted = 0
    /\ lastPublish.kind = "id" => lastPublish.id \in Present

\* C4: a publish without singletonNextSlot found the bucket of its name and
\* key occupied by a row published a second earlier, inserted nothing and
\* returned null.
C4_Witness ==
    /\ lastPublish.kind = "null" /\ lastPublish.occupied /\ ~lastPublish.nextSlot
    /\ lastPublish.inserted = 0
    /\ \E i \in Present :
          /\ rows[i].singletonOn # NoTime
          /\ rows[i].singletonKey = "k"
          /\ rows[i].createdAt < now
          /\ now < rows[i].singletonOn + lastPublish.seconds

\* C5: a publish called with singletonNextSlot that finds the current
\* bucket occupied returns an id, of a job whose startAfter is the next
\* bucket boundary.  The calls are those whose options the caller did not
\* assign while the call was in flight.
C5_NextSlotAsStated ==
    lastPublish.nextSlot /\ lastPublish.occupied /\ ~lastPublish.rewritten
      => /\ lastPublish.kind = "id"
         /\ rows[lastPublish.id].startAfter =
              NextBoundary(rows[lastPublish.id].createdAt, lastPublish.seconds)

\* What C6 asks of a step.
ExpiredRefetchStep ==
    LET moved == {i \in JobIds : /\ rows[i].state = "active"
                                 /\ rows'[i].state = "expired"}
        swept == {c \in 1..Len(monitors) :
                    /\ monitors[c].pc \in {"initial", "sweeping"}
                    /\ monitors'[c].pc = "answered"}
        emits == {c \in 1..Len(monitors) :
                    /\ monitors[c].pc = "answered"
                    /\ monitors'[c].pc = "init"}
    IN  /\ moved # {} \/ swept # {}
           => /\ moved = Overdue(rows, now)
              /\ Overdue(rows', now') = {}
              /\ \A c \in swept : monitors'[c].rowCount = Cardinality(moved)
        /\ \A c \in emits :
              lastSweep' = [failed |-> FALSE, rowCount |-> monitors[c].rowCount,
                            emitted |-> monitors[c].rowCount]
        /\ lastSweep' # lastSweep => emits # {}
        /\ \A i \in JobIds :
              rows[i].state = "expired" /\ rows'[i].state = "active"
                => \E c \in Callers :
                      /\ calls[c].pc = "sent"
                      /\ calls[c].name = rows[i].name
                      /\ calls'[c].pc = "answered"
                      /\ calls'[c].claimed = {i}
        /\ \A c \in Callers :
              /\ calls[c].pc = "sent" /\ calls'[c].pc = "answered"
                   => /\ calls'[c].claimed \subseteq Eligible(rows, now, calls[c].name)
                      /\ calls'[c].claimed = {}
                           <=> Eligible(rows, now, calls[c].name) = {}
              /\ calls[c].pc = "answered" /\ calls'[c].pc = "idle"
                   => /\ lastFetch'.name = calls[c].name
                      /\ IF calls[c].claimed = {} THEN lastFetch'.id = 0
                         ELSE lastFetch'.id \in calls[c].claimed

\* C6: a sweep expires every active job whose expireIn has elapsed, and its
\* continuation emits `expired' with the number of rows the sweep expired
\* (no event for none); an expired job is eligible again: the store claims
\* it for a fetch of its queue, which returns its id, and a fetch returns
\* null only when no row of the name was eligible as the store ran its plan.
C6_ExpiredRefetch ==
    [][ExpiredRefetchStep]_vars

\* C6: the only job of the table was fetched, expired by a sweep that
\* emitted `expired' with 1, and returned again by the next fetch.
C6_Witness ==
    \E i \in Present :
       /\ Present = {i}
       /\ rows[i].state = "active"
       /\ rows[i].startedAt > rows[i].createdAt
       /\ lastSweep = [failed |-> FALSE, rowCount |-> 1, emitted |-> 1]
       /\ lastFetch.id = i

\* The last publish call has ended with an id or with null.
Ended == lastPublish.kind \in {"id", "null"}

\* C14: publish returns an id exactly when one of its inserts reported one
\* row, the id is the one handed to that insert, which is the last one, and
\* the row is in the table; it returns null exactly when every insert of the
\* call reported no row.
C14_IdIffInserted ==
    Ended =>
      LET ins == lastPublish.inserts
          n == Len(ins)
      IN  /\ n >= 1
          /\ lastPublish.kind = "id" <=> \E k \in 1..n : ins[k].rowCount = 1
          /\ lastPublish.kind = "null" <=> \A k \in 1..n : ins[k].rowCount = 0
          /\ lastPublish.kind = "id"
                => /\ ins[n].rowCount = 1
                   /\ lastPublish.id = ins[n].id
                   /\ rows[lastPublish.id].state # "none"
          /\ lastPublish.kind = "null" => lastPublish.id = 0

\* C14: a publish returned the id of its second insert, the first having
\* inserted nothing.
C14_Witness ==
    /\ Ended /\ lastPublish.kind = "id"
    /\ Len(lastPublish.inserts) = 2
    /\ lastPublish.inserts[1].rowCount = 0
    /\ lastPublish.inserts[2].rowCount = 1

\* The inserts of a call, as C15 has them: at most two; the first with
\* singletonOffset 0; a second only after a first that reported no row, for
\* a call that asked for the next slot, with startIn and singletonOffset
\* both the singletonSeconds of the first (0 when the options give no
\* window).
TwoInserts(ins, nextSlot) ==
    /\ Len(ins) <= 2
    /\ Len(ins) >= 1 => ins[1].offset = 0
    /\ Len(ins) = 2
         => /\ nextSlot
            /\ ins[1].rowCount = 0
            /\ ins[2].offset = ins[1].seconds
            /\ ins[2].startIn = ToString(ins[1].seconds)

\* C15: every publish call ends after at most two inserts, and the second
\* insert is the one of the next slot: of the calls that have ended and of
\* the calls in flight, none has sent a third insert.  (A caller that
\* assigns the options object while the call that holds it is in flight is
\* outside the statement.)
C15_AtMostTwoInserts ==
    /\ ~lastPublish.rewritten
         => /\ lastPublish.round <= 2
            /\ TwoInserts(lastPublish.inserts, lastPublish.nextSlot)
    /\ \A k \in 1..Len(pubs) :
         ~pubs[k].rewritten
         => /\ pubs[k].round <= 2
            /\ TwoInserts(pubs[k].inserts, pubs[k].given.singletonNextSlot)

\* C15: a publish that asked for the next slot of a two-second window has
\* inserted twice and ended.
C15_Witness ==
    /\ Ended
    /\ ~lastPublish.rewritten
    /\ Len(lastPublish.inserts) = 2
    /\ lastPublish.inserts[1].seconds = 2
    /\ lastPublish.inserts[2].startIn = "2"

\* C20, as stated: a publish call that was handed an options object leaves
\* it as it was; the object the caller keeps holds what the caller gave it.
C20_OptionsUnchanged ==
    /\ Ended /\ lastPublish.aliased /\ ~lastPublish.shared
         => lastPublish.options = lastPublish.given
    /\ kept.f = kept.given

\* The registry: the workers close() has not removed.
Registry == {w \in 1..Len(workers) : workers[w].listed}

\* What C12 asks of a step: only a registration adds workers, and it adds
\* the team of the oldest call that waits.
TeamStep ==
    /\ Len(workers') # Len(workers) => Len(subs') < Len(subs)
    /\ Len(subs') < Len(subs)
         => /\ subs' = Tail(subs)
            /\ Len(workers') = Len(workers) + TeamSize(Head(subs))
            /\ ~Head(subs).rewritten
                 => Len(workers') = Len(workers) + Head(subs).teamSize
            /\ \A w \in 1..Len(workers) : workers'[w] = workers[w]
            /\ \A w \in (Len(workers) + 1)..Len(workers') :
                  workers'[w] = StartedWorker(Head(subs).name)

\* C12: a subscribe call that passes validation adds exactly teamSize started
\* workers to the registry (1 when teamSize is absent), all of them polling
\* fetch(name); as long as nothing was closed, the registry holds as many
\* workers as the accepted calls asked for, once their registrations ran.
\* The teamSize is the one the options object holds when the registration
\* runs: the teamSize of the call, unless the caller has assigned the object
\* since the call.
C12_TeamRegistered ==
    /\ [](subs = <<>> /\ Registry = 1..Len(workers) /\ ~requests.rewritten
            => Len(workers) = requests.sum)
    /\ [](\A w \in Registry : ~workers[w].stopped)
    /\ [][TeamStep]_vars

\* Two accepted calls, one without a teamSize, or one call with a teamSize of
\* two, have registered two workers that poll.
C12_Witness ==
    /\ subs = <<>>
    /\ ~requests.rewritten
    /\ requests.sum = 2
    /\ Registry = {1, 2}
    /\ \A w \in Registry : workers[w].pc = "fetching" /\ workers[w].name = "a"

\* A step that stops a worker or takes one out of the registry.
Closes ==
    \E w \in 1..Len(workers) :
       \/ workers'[w].stopped /\ ~workers[w].stopped
       \/ ~workers'[w].listed /\ workers[w].listed

\* C16: close() stops every worker of the registry and leaves the registry
\* empty, and changes nothing else: the stopped flag, the chains of the
\* monitor and the timer handle are as before; only the continuation of
\* stop() sets the flag and cancels a timer.
C16_CloseOnlyWorkers ==
    [][/\ Closes
          => /\ Len(workers') = Len(workers)
             /\ \A w \in 1..Len(workers) :
                   workers'[w] = IF workers[w].listed
                                   THEN [workers[w] EXCEPT !.stopped = TRUE,
                                                           !.listed = FALSE]
                                   ELSE workers[w]
             /\ stopped' = stopped
             /\ monitors' = monitors
             /\ expireTimer' = expireTimer
             /\ subs' = subs
             /\ errors' = errors
             /\ storeVars' = storeVars
       /\ stopped' # stopped => stopped' /\ stops' = stops - 1
       /\ (\E c \in 1..Len(monitors) :
             monitors'[c].pc = "cleared" /\ monitors[c].pc # "cleared")
          => stops' = stops - 1]_vars

\* close() was called, and never stop(): the workers are stopped and out of
\* the registry, the flag is not set and the timer is still pending.
C16_Witness ==
    /\ Len(workers) >= 1
    /\ Registry = {}
    /\ \A w \in 1..Len(workers) : workers[w].stopped
    /\ ~stopped
    /\ stops = 0
    /\ expireTimer \in Armed

\* C18: every failure of an expire sweep is observable on exactly one
\* surface.  The failure of a sweep the timer started is emitted as exactly
\* one `error' event and rejects nobody's promise; the failure of the first
\* sweep of monitor() rejects the promise monitor() returned and emits no
\* event; and no `error' event is emitted for anything else.
C18_SweepFailureOnce ==
    [][/\ \A c \in 1..MaxMonitors :
             SweepFails(c)
             => IF monitors[c].first
                  THEN errors' = errors /\ monitors'[c].pc = "rejected"
                  ELSE errors' = errors + 1 /\ monitors'[c].pc # "rejected"
       /\ errors' # errors
             => \E c \in 1..MaxMonitors : SweepFails(c) /\ ~monitors[c].first
       /\ \A c \in 1..Len(monitors) :
             monitors'[c].pc = "rejected" /\ monitors[c].pc # "rejected"
             => SweepFails(c) /\ monitors[c].first]_vars

\* One monitor() was rejected by its first sweep; the sweep of a timer of
\* another failed, emitted the one `error' event, and its timer is armed
\* again.
C18_Witness ==
    /\ errors = 1
    /\ lastSweep.failed
    /\ \E c \in 1..Len(monitors) : monitors[c].pc = "rejected"
    /\ Armed # {}

\* C19, as stated: once stop() has been called and every continuation has
\* run (the continuation of stop and the registrations of the subscribe
\* calls), no worker is running, the subscribe calls having all been issued
\* before stop().
C19_NoWorkerAfterStop ==
    stopped /\ stops = 0 /\ subs = <<>> /\ ~requests.afterStop
    => \A w \in 1..Len(workers) : workers[w].stopped

\* The workers whose fetch returns, and whose responder runs, in this step.
Responding ==
    {w \in 1..Len(workers) : /\ Len(workers') = Len(workers)
                             /\ workers[w].pc = "answered"
                             /\ workers'[w].pc = "sleeping"}

\* C17: what a step may do to the events emitted and the callbacks run.
EventStep ==
    /\ dispatches' \in {dispatches, dispatches + 1}
    /\ callbacks' \in {callbacks, callbacks + 1}
    /\ dispatches' # dispatches
          => /\ callbacks' = callbacks
             /\ processing' = processing /\ thrown' = thrown
             /\ \E w \in Responding : \E i \in workers[w].claimed :
                   immediates' = Append(immediates,
                                        [w |-> w, id |-> i, at |-> workers[w].at])
    /\ \A w \in Responding :
          workers[w].claimed = {}
            => /\ dispatches' = dispatches
               /\ immediates' = immediates
               /\ callbacks' = callbacks
    /\ callbacks' # callbacks
          => /\ immediates # <<>>
             /\ immediates' = Tail(immediates)
             /\ dispatches' = dispatches
             /\ \/ processing' = processing \cup {Head(immediates)}
                      /\ thrown' = thrown
                \/ thrown' = [count |-> thrown.count + 1,
                              last |-> Head(immediates)]
                      /\ processing' = processing

\* C17: for every job handed to the responder the `job' event is emitted
\* first and the user callback runs strictly later, in a separate scheduler
\* step, exactly once per dispatch; a null job causes neither.  Every event
\* is matched by one callback that has run or is waiting to run; the step
\* that emits the event queues the callback and runs none; the step that
\* runs a callback runs the oldest queued one and emits nothing.
C17_EventThenCallback ==
    /\ [](dispatches = callbacks + Len(immediates))
    /\ [][EventStep]_vars

\* Two jobs were handed to responders: the callback of the first has run and
\* the callback of the second is waiting for its turn, after a fetch that
\* returned null.
C17_Witness ==
    /\ dispatches = 2
    /\ callbacks = 1
    /\ Len(immediates) = 1
    /\ \E w \in 1..Len(workers) :
          /\ workers[w].pc = "sleeping"
          /\ \A d \in processing \cup {immediates[1]} : d.w # w
          /\ thrown.count = 0 \/ thrown.last.w # w

\* complete(i) or cancel(i) has succeeded: it has returned the id.
Succeeded(i) ==
    \/ \E k \in 1..Len(completeLog) :
          completeLog[k].id = i /\ completeLog[k].result = "id"
    \/ lastCancel.id = i /\ lastCancel.ok

\* C13, as stated: after complete(id) or cancel(id) has succeeded, no fetch
\* returns that id.
C13_NoReturnAsStated ==
    [][\A i \in JobIds : \A c \in Callers :
          /\ Succeeded(i)
          /\ calls[c].pc = "answered"
          /\ calls'[c].pc = "idle"
          => calls'[c].got # i]_vars

\* What C13 asks of a step, for a row i that is completed or cancelled.
AbsorbingStep(i) ==
    /\ rows'[i] = rows[i]
    /\ \A c \in Callers :
          calls[c].pc = "sent" /\ calls'[c].pc = "answered"
            => i \notin calls'[c].claimed
    /\ \A k \in 1..Len(finishes) :
          /\ Len(finishes') = Len(finishes)
          /\ finishes[k].id = i
          /\ finishes[k].pc = "sent"
          /\ finishes'[k].pc = "answered"
          => finishes'[k].rowCount = 0 /\ finishes'[k].was = rows[i].state
    /\ \A k \in 1..Len(finishes) :
          /\ Len(finishes') < Len(finishes)
          /\ finishes[k].id = i
          /\ finishes[k].was \in Terminal
          /\ finishes' = Remove(finishes, k)
          => IF finishes[k].op = "complete"
               THEN completeLog' = Append(completeLog,
                                          [id |-> i, nth |-> finishes[k].nth,
                                           result |-> "not-found"])
               ELSE lastCancel' = [id |-> i, ok |-> FALSE,
                                   was |-> finishes[k].was]

\* C13, amended: completed and cancelled are absorbing.  Once a row is
\* completed or cancelled no step changes it (no fetch claims it, no sweep
\* expires it, no complete or cancel moves it): the store claims it for no
\* fetch whose plan it runs from then on, so that no fetch called after the
\* success returns its id, and a complete or cancel whose plan the store
\* runs on such a row reports no row and fails.  (A fetch for which the
\* store claimed the row before the complete or cancel may return its id
\* after the complete or cancel has returned.)
C13_TerminalAbsorbing ==
    /\ [][\A i \in JobIds : rows[i].state \in Terminal => AbsorbingStep(i)]_vars
    /\ [](lastCancel.was \in Terminal
            => ~lastCancel.ok /\ rows[lastCancel.id].state = lastCancel.was)

\* A completed row that a cancel found completed and left so, that a second
\* complete did not move, with a fetch of its queue returning null.
C13_Witness ==
    \E i \in JobIds :
       /\ rows[i].state = "completed"
       /\ lastCancel = [id |-> i, ok |-> FALSE, was |-> "completed"]
       /\ CompletesOf(i) = <<"id", "not-found">>
       /\ lastFetch = [name |-> rows[i].name, id |-> 0]
       /\ now >= rows[i].startedAt + rows[i].expireIn
       /\ lastSweep.rowCount = 0
       /\ \E c \in 1..Len(monitors) : ~monitors[c].first /\ monitors[c].pc = "armed"

\* C11: a publish call that fails validation has no effect: when the name
\* is missing or the payload is callable, the call is rejected and no insert
\* is executed.
C11_InvalidPublishRejected ==
    /\ lastCall.form # ""
    /\ ~Truthy(lastCall.name) \/ TypeOf(lastCall.data) = "function"
    => /\ ~lastCall.accepted
       /\ pubs = <<>>
       /\ lastPublish.kind = "rejected"
       /\ lastPublish.inserts = <<>>

\* C10: the last publish call's arguments, handed over in the other form.
OtherForm(form) == IF form = "positional" THEN "object" ELSE "positional"

TwinResult ==
    PublishGetArgs(PublishArgs(OtherForm(lastCall.form), lastCall.name,
                               lastCall.data, lastCall.options))

\* C10: the positional form and the object form accept and reject the same
\* name, data and options, and hand the same name, data and options to
\* insertJob.
C10_FormsAgree ==
    lastCall.form # ""
      => TwinResult = PublishGetArgs(PublishArgs(lastCall.form, lastCall.name,
                                                 lastCall.data, lastCall.options))

====
